---- MODULE Spec2Model ----
(***************************************************************************)
(* A model of dfloat11's inference_precompile_v2.py: the per-device        *)
(* TensorManager buffer pool, the decode pre-hook, load_and_replace_tensors *)
(* (the rewrite of the module tree), get_no_split_classes and the          *)
(* placement step of DFloat11Model.from_pretrained.                        *)
(*                                                                         *)
(* Strings are modelled as sequences of dot-free components: the tensor    *)
(* name "attn.encoded_exponent" is <<"attn", "encoded_exponent">> (what    *)
(* tensor_name.split('.') returns), and the dotted path '.'.join(p) of a   *)
(* component sequence p is p itself; '' is <<>>.  A regular expression is  *)
(* modelled by the set of paths re.fullmatch accepts.                      *)
(***************************************************************************)
EXTENDS Integers, Sequences, FiniteSets, TLC

\* ------------------------------------------------------------------ bounds
MaxPatterns == 2      \* longest pattern_dict drawn
MaxAllocs   == 3      \* torch.empty calls of TensorManager in one run
MaxN        == 3      \* largest n_elements of a direct get_tensor call

\* ------------------------------------------------- the model skeleton
\* The freshly constructed model: a root with an embedding, an attention
\* block holding two dense projections, and a dense head.
Mods == {"root", "embed", "attn", "attn.q", "attn.k", "fc"}

PathOf == [m \in Mods |->
             CASE m = "root"   -> << >>
               [] m = "embed"  -> <<"embed">>
               [] m = "attn"   -> <<"attn">>
               [] m = "attn.q" -> <<"attn", "q">>
               [] m = "attn.k" -> <<"attn", "k">>
               [] m = "fc"     -> <<"fc">>]

ClassOf == [m \in Mods |->
             CASE m = "root"   -> "Model"
               [] m = "embed"  -> "Embedding"
               [] m = "attn"   -> "Attention"
               [] m = "attn.q" -> "Linear"
               [] m = "attn.k" -> "Linear"
               [] m = "fc"     -> "Linear"]

\* out_features * in_features (num_embeddings * embedding_dim) of a layer
\* that owns a native weight; 0 for a container.
Numel == [m \in Mods |->
             CASE m = "embed"  -> 2
               [] m = "attn.q" -> 1
               [] m = "attn.k" -> 1
               [] m = "fc"     -> 3
               [] OTHER        -> 0]

\* model.named_modules(): every module once, parents first.
NamedModules == <<"root", "embed", "attn", "attn.q", "attn.k", "fc">>

\* The compressed layers run by one forward pass, in call order.
ForwardOrder == <<"embed", "attn", "fc">>

IsLinear(m)    == ClassOf[m] = "Linear"
IsEmbedding(m) == ClassOf[m] = "Embedding"

NoMod == "nomodule"

\* getattr(module, part) for a sub-module; NoMod when there is none.
Child(m, part) ==
    IF \E c \in Mods : PathOf[c] = Append(PathOf[m], part)
    THEN CHOOSE c \in Mods : PathOf[c] = Append(PathOf[m], part)
    ELSE NoMod

IsPrefix(a, b) == Len(a) <= Len(b) /\ SubSeq(b, 1, Len(a)) = a

\* m lies in the subtree of a.
Within(m, a) == IsPrefix(PathOf[a], PathOf[m])

\* ------------------------------------------------------------ sequences
Front(s) == SubSeq(s, 1, Len(s) - 1)
Last(s)  == s[Len(s)]
Range(s) == {s[i] : i \in 1..Len(s)}

RECURSIVE SeqSum(_)
SeqSum(s) == IF s = << >> THEN 0 ELSE s[1] + SeqSum(Tail(s))

RECURSIVE SeqMax(_)
SeqMax(s) == IF Len(s) = 1 THEN s[1]
             ELSE LET r == SeqMax(Tail(s)) IN IF s[1] >= r THEN s[1] ELSE r

\* ------------------------------------------------------- configuration
\* One entry of pattern_dict: the regular expression (by name), the dotted
\* paths it fullmatches, and its list of relative attribute paths.
PEmbed == [name |-> "embed",    matches |-> {<<"embed">>}, attrs |-> << >>]
PFc    == [name |-> "fc",       matches |-> {<<"fc">>},    attrs |-> << >>]
PAttn  == [name |-> "attn",     matches |-> {<<"attn">>},
           attrs |-> << <<"q">>, <<"k">> >>]
PFq    == [name |-> "fc|.*q",   matches |-> {<<"fc">>, <<"attn", "q">>},
           attrs |-> << >>]
PAtQ   == [name |-> "attn(.q)?", matches |-> {<<"attn">>, <<"attn", "q">>},
           attrs |-> << <<"q">> >>]
POptK  == [name |-> "(attn)?",  matches |-> {<< >>, <<"attn">>},
           attrs |-> << <<"k">> >>]
PNone  == [name |-> "zzz",      matches |-> {},            attrs |-> << >>]

PatternUniverse == {PEmbed, PFc, PAttn, PFq, PAtQ, POptK, PNone}

\* re.fullmatch(pattern, path)
FullMatch(pat, path) == path \in pat.matches

\* The pattern dicts drawn: the ordered mappings of 1..MaxPatterns distinct
\* patterns (a dict has no two equal keys).
PatternDicts ==
    {d \in UNION {[1..n -> PatternUniverse] : n \in 1..MaxPatterns} :
        \A i, j \in 1..Len(d) : i # j => d[i] # d[j]}

TpbChoices == {128}            \* threads_per_block[0]
BptChoices == {4}              \* bytes_per_thread

\* ------------------------------------------------------------- tensors
\* A tensor: its element count and, where the program reads them, its
\* bytes.  NoTensor is the absence of one.
Tensor(n, bytes) == [present |-> TRUE, numel |-> n, data |-> bytes]
NoTensor         == [present |-> FALSE, numel |-> 0, data |-> << >>]

BufNames == {"sign_mantissa", "encoded_exponent", "luts",
             "output_positions", "gaps"}

\* The little-endian bytes of the 32-bit offsets in s.
RECURSIVE U32Bytes(_)
U32Bytes(s) ==
    IF s = << >> THEN << >>
    ELSE << s[1] % 256, (s[1] \div 256) % 256, (s[1] \div 65536) % 256,
            (s[1] \div 16777216) % 256 >> \o U32Bytes(Tail(s))

\* The layers the checkpoint can hold a compressed record for.
Compressible == {"embed", "attn", "fc"}

OutputPositionsOf == [m \in Compressible |->
    CASE m = "embed" -> <<0, 10, 25, 40>>
      [] m = "attn"  -> <<0, 300, 301>>
      [] m = "fc"    -> <<7, 9>>]

CodedBytesOf == [m \in Compressible |->
    CASE m = "embed" -> 1000
      [] m = "attn"  -> 1024
      [] m = "fc"    -> 1025]

\* Index of the first pattern of dict that matches path, 0 when none does.
FirstMatch(dict, path) ==
    IF \E i \in 1..Len(dict) : FullMatch(dict[i], path)
    THEN CHOOSE i \in 1..Len(dict) :
            /\ FullMatch(dict[i], path)
            /\ \A j \in 1..(i - 1) : ~FullMatch(dict[j], path)
    ELSE 0

\* The sub-layers a relative attribute list names below module m.
RECURSIVE Resolve(_, _)
Resolve(m, path) ==
    IF path = << >> \/ m = NoMod THEN m
    ELSE Resolve(Child(m, path[1]), Tail(path))

Targets(m, attrs) == [i \in 1..Len(attrs) |-> Resolve(m, attrs[i])]

\* The split positions of a group: the running sums of its members' element
\* counts but the last.
RECURSIVE Cumulative(_, _)
Cumulative(ns, acc) ==
    IF Len(ns) <= 1 THEN << >>
    ELSE <<acc + ns[1]>> \o Cumulative(Tail(ns), acc + ns[1])

\* The checkpoint file of layer m as the compressor writes it under dict:
\* the named tensors, in file order.  A tensor is [parts, value, list].
Entry(m, leaf, t, l) == [parts |-> Append(PathOf[m], leaf), value |-> t, list |-> l]

GroupOf(m, dict) ==
    IF IsLinear(m) \/ IsEmbedding(m) THEN << >>
    ELSE Targets(m, dict[FirstMatch(dict, PathOf[m])].attrs)

TotalElements(m, dict) ==
    IF IsLinear(m) \/ IsEmbedding(m) THEN Numel[m]
    ELSE SeqSum([i \in 1..Len(GroupOf(m, dict)) |-> Numel[GroupOf(m, dict)[i]]])

FileOf(m, dict) ==
    LET base == << Entry(m, "luts", Tensor(1, << >>), << >>),
                   Entry(m, "encoded_exponent", Tensor(CodedBytesOf[m], << >>), << >>),
                   Entry(m, "sign_mantissa", Tensor(TotalElements(m, dict), << >>), << >>),
                   Entry(m, "output_positions",
                         Tensor(4 * Len(OutputPositionsOf[m]),
                                U32Bytes(OutputPositionsOf[m])), << >>),
                   Entry(m, "gaps", Tensor(1, << >>), << >>) >>
        g == GroupOf(m, dict)
    IN  IF IsLinear(m) \/ IsEmbedding(m) THEN base
        ELSE Append(base,
                    Entry(m, "split_positions", Tensor(Len(g) - 1, << >>),
                          Cumulative([i \in 1..Len(g) |-> Numel[g[i]]], 0)))

\* A second copy of a layer's encoded exponent in a file of its own.
DupFileOf(m) ==
    << Entry(m, "encoded_exponent", Tensor(CodedBytesOf[m], << >>), << >>) >>

Compressed(dict) == {m \in Compressible : FirstMatch(dict, PathOf[m]) # 0}

Perms(S) == {f \in [1..Cardinality(S) -> S] :
                \A i, j \in 1..Cardinality(S) : i # j => f[i] # f[j]}

RECURSIVE Flatten(_)
Flatten(ss) == IF ss = << >> THEN << >> ELSE ss[1] \o Flatten(Tail(ss))

\* The tensor streams load_and_replace_tensors can meet for dict: the
\* layers' files (and possibly one stale copy) in any directory order.
Streams(dict) ==
    LET files == {FileOf(m, dict) : m \in Compressed(dict)}
        dups  == {DupFileOf(m) : m \in Compressed(dict)}
    IN  {Flatten(p) : p \in Perms(files)}
        \cup {Flatten(p) : p \in UNION {Perms(files \cup {d}) : d \in dups}}

\* What a checkpoint directory can hold besides, one file each:
\* a copy of a layer's encoded exponent of other content;
StaleBytes == <<1>>

StaleFileOf(m) ==
    << Entry(m, "encoded_exponent", Tensor(CodedBytesOf[m], StaleBytes), << >>) >>

\* a copy of it of another length;
MisshapenFileOf(m) ==
    << Entry(m, "encoded_exponent", Tensor(CodedBytesOf[m] + 1, StaleBytes), << >>) >>

\* the uncompressed weight of a layer the compressor left alone, of the
\* layer's shape (extra = 0) or not;
LoadedBytes == <<2>>

NativeLayers(dict) ==
    {t \in Mods : /\ Numel[t] > 0
                  /\ t \notin Compressed(dict)
                  /\ \A g \in Compressed(dict) : ~(g # t /\ Within(t, g))}

RawFileOf(t, extra) ==
    << Entry(t, "weight", Tensor(Numel[t] + extra, LoadedBytes), << >>) >>

\* a tensor under a module path the model does not have.
OrphanFile ==
    << [parts |-> <<"attn", "v", "encoded_exponent">>,
        value |-> Tensor(1, << >>), list |-> << >>] >>

\* The file of layer m with a single output position.
SinglePositionFileOf(m, dict) ==
    LET f == FileOf(m, dict)
    IN  [i \in 1..Len(f) |->
            IF Last(f[i].parts) = "output_positions"
            THEN Entry(m, "output_positions", Tensor(4, U32Bytes(<<5>>)), << >>)
            ELSE f[i]]

ExtraFiles(dict) ==
    {DupFileOf(m) : m \in Compressed(dict)}
    \cup {StaleFileOf(m) : m \in Compressed(dict)}
    \cup {MisshapenFileOf(m) : m \in Compressed(dict)}
    \cup {RawFileOf(t, e) : t \in NativeLayers(dict), e \in {0, 1}}
    \cup {OrphanFile}

\* The streams of any checkpoint directory: the layers' files with one
\* further file, or with one layer's positions cut to one, in any order.
AnyStreams(dict) ==
    LET files == {FileOf(m, dict) : m \in Compressed(dict)}
    IN  Streams(dict)
        \cup {Flatten(p) : p \in UNION {Perms(files \cup {x}) : x \in ExtraFiles(dict)}}
        \cup {Flatten(p) : p \in UNION {Perms((files \ {FileOf(m, dict)})
                                                \cup {SinglePositionFileOf(m, dict)}) :
                                          m \in Compressed(dict)}}

\* ---------------------------------------------------------------- state
Devices == {"cuda:0", "cuda:1"}
Passes  == {1, 2}

VARIABLES
    cfg,      \* dfloat11_config: [dict, tpb, bpt]
    shards,   \* the named tensors of the directory's safetensors files
    stream,   \* the named tensors load_and_replace_tensors has yet to read
    mod,      \* per module: its buffers and attributes
    phase,    \* from_pretrained: "attach", "place", "ready", "failed"
    diags,    \* the diagnostics printed to stderr
    again,    \* load_and_replace_tensors: the names it found in state_dict
    noSplit,  \* no_split_classes handed to the placement
    dev,      \* the device of each module
    pool,     \* TensorManager._tensors: per device [id, cap], id 0 for none
    nextId,   \* identities handed out by torch.empty
    content,  \* per allocation: the layer whose decoded data it holds
    ret,      \* what the last get_tensor call returned
    last,     \* what the last TensorManager call did
    fwd,      \* per forward pass: the layer it is at and its step
    hk        \* the last decode_hook invocation

vars == <<cfg, shards, stream, mod, phase, diags, again, noSplit, dev, pool, nextId,
          content, ret, last, fwd, hk>>

\* A weight attribute: a native parameter, none (deleted), or a view of
\* len elements at offset off of allocation buf.
\* val: the values of a native parameter, << >> as constructed.
ParamW           == [kind |-> "param", buf |-> 0, off |-> 0, len |-> 0, val |-> << >>]
NoW              == [kind |-> "none",  buf |-> 0, off |-> 0, len |-> 0, val |-> << >>]
ViewW(b, o, l)   == [kind |-> "view",  buf |-> b, off |-> o, len |-> l, val |-> << >>]

Unset    == [set |-> FALSE, v |-> << >>]
SetTo(x) == [set |-> TRUE,  v |-> x]

NoSmem == -1

FreshModule(m) ==
    [bufs   |-> [b \in BufNames |-> NoTensor],
     split  |-> Unset,      \* split_positions
     hooks  |-> 0,          \* registered forward pre-hooks
     weight |-> IF Numel[m] > 0 THEN ParamW ELSE NoW,
     wim    |-> Unset,      \* weight_injection_modules
     smem   |-> NoSmem]     \* shared_mem_size

\* ------------------------------------------- load_and_replace_tensors
\* tensor_name in model.state_dict(): a parameter or a registered buffer.
IsParam(ms, parts) ==
    \E m \in Mods : /\ PathOf[m] = Front(parts)
                    /\ Last(parts) = "weight"
                    /\ ms[m].weight.kind = "param"

IsBuffer(ms, parts) ==
    \E m \in Mods : /\ PathOf[m] = Front(parts)
                    /\ Last(parts) \in BufNames
                    /\ ms[m].bufs[Last(parts)].present

OwnerOf(parts) == CHOOSE m \in Mods : PathOf[m] = Front(parts)

\* hasattr(module, name) for a name that is neither a sub-module nor a
\* registered buffer.
HasOwnAttr(ms, m, name) ==
    \/ name = "weight" /\ ms[m].weight.kind # "none"
    \/ name = "split_positions" /\ ms[m].split.set
    \/ name = "weight_injection_modules" /\ ms[m].wim.set
    \/ name = "shared_mem_size" /\ ms[m].smem # NoSmem

\* hasattr(module, name) for a name that is no sub-module.
HasPlainAttr(ms, m, name) ==
    \/ HasOwnAttr(ms, m, name)
    \/ name \in BufNames /\ ms[m].bufs[name].present

Missing == "missing"
Object  == "object"

\* The descent without the else of the for loop: a step that finds no
\* attribute stops at the module reached so far.
RECURSIVE NavigateLenient(_, _, _)
NavigateLenient(ms, at, path) ==
    IF path = << >> THEN at
    ELSE IF at = Object THEN Missing
    ELSE IF Child(at, path[1]) # NoMod
    THEN NavigateLenient(ms, Child(at, path[1]), Tail(path))
    ELSE IF HasPlainAttr(ms, at, path[1]) THEN NavigateLenient(ms, Object, Tail(path))
    ELSE at

\* The descent along parts[:-1] from the model: the module reached, Object
\* when the last step reached an attribute that is no module, Missing when
\* a step found no attribute (the loop's break).
RECURSIVE Navigate(_, _, _)
Navigate(ms, at, path) ==
    IF path = << >> THEN at
    ELSE IF at = Object THEN Missing
    ELSE IF Child(at, path[1]) # NoMod THEN Navigate(ms, Child(at, path[1]), Tail(path))
    ELSE IF HasPlainAttr(ms, at, path[1]) THEN Navigate(ms, Object, Tail(path))
    ELSE Missing

\* tensor.view(torch.uint32): little-endian groups of four bytes.
RECURSIVE ViewU32(_)
ViewU32(bytes) ==
    IF Len(bytes) < 4 THEN << >>
    ELSE << bytes[1] + 256 * bytes[2] + 65536 * bytes[3] + 16777216 * bytes[4] >>
         \o ViewU32(SubSeq(bytes, 5, Len(bytes)))

\* a[1:] - a[:-1] on uint32 arrays.  numpy computes the differences modulo
\* 2^32; on the increasing offsets below 2^31 that a checkpoint holds (and
\* that TLC's integers can express) that is the plain difference.
ConsecutiveDiffs(a) ==
    [i \in 1..(Len(a) - 1) |-> a[i + 1] - a[i]]

\* The size without the four bytes added to the per-thread words.
SharedMemSizeNoPad(tpb, bytes) ==
    tpb * 4 + SeqMax(ConsecutiveDiffs(ViewU32(bytes))) * 2

SharedMemSize(tpb, bytes) ==
    tpb * 4 + 4 + SeqMax(ConsecutiveDiffs(ViewU32(bytes))) * 2

Res(ms, raised) == [ms |-> ms, raised |-> raised]

\* The inner loop over attr_names: lines 240-249.  Each step rebinds parts.
RECURSIVE InjectLoop(_, _, _, _)
InjectLoop(ms, m, attrs, j) ==
    IF j > Len(attrs) THEN Res(ms, FALSE)
    ELSE LET target == Resolve(m, attrs[j])
         IN  IF target = NoMod THEN Res(ms, TRUE)
             ELSE IF ms[target].weight.kind = "none" THEN Res(ms, TRUE)
             ELSE InjectLoop(
                    [ms EXCEPT ![target].weight = NoW,
                               ![m].wim = SetTo(Append(ms[m].wim.v, target))],
                    m, attrs, j + 1)

\* The matched module treated as a group whatever its class: the embedding
\* and dense branches of lines 227-236 left out.
StripAsGroup(ms, m, attrs) ==
    InjectLoop([ms EXCEPT ![m].wim = SetTo(<< >>)], m, attrs, 1)

\* What one matching pattern does to module m: lines 227-249.
StripMatched(ms, m, attrs) ==
    IF IsEmbedding(m) \/ IsLinear(m)
    THEN IF ms[m].weight.kind = "none" THEN Res(ms, TRUE)
         ELSE Res([ms EXCEPT ![m].weight = NoW], FALSE)
    ELSE InjectLoop([ms EXCEPT ![m].wim = SetTo(<< >>)], m, attrs, 1)

\* parts after one matching pattern: the inner loop leaves its last
\* attr_path.split('.') in parts (line 241).
PartsAfter(m, parts, attrs) ==
    IF IsEmbedding(m) \/ IsLinear(m) \/ attrs = << >> THEN parts
    ELSE Last(attrs)

\* The loop over pattern_dict.items(): lines 225-249.
RECURSIVE PatternLoop(_, _, _, _, _)
PatternLoop(ms, m, parts, dict, i) ==
    IF i > Len(dict) THEN Res(ms, FALSE)
    ELSE IF FullMatch(dict[i], Front(parts))
         THEN LET r == StripMatched(ms, m, dict[i].attrs)
              IN  IF r.raised THEN r
                  ELSE PatternLoop(r.ms, m, PartsAfter(m, parts, dict[i].attrs),
                                   dict, i + 1)
         ELSE PatternLoop(ms, m, parts, dict, i + 1)

\* module.register_forward_pre_hook(...): line 222.
RegisterHook(ms, m) == [ms EXCEPT ![m].hooks = @ + 1]

\* Lines 213-259 on the module m the name resolved to.
AttachLeaf(ms, c, m, t) ==
    LET leaf == Last(t.parts)
        ms1  == IF leaf = "split_positions"
                THEN [ms EXCEPT ![m].split = SetTo(t.list)]
                ELSE [ms EXCEPT ![m].bufs[leaf] = t.value]
    IN  IF leaf # "split_positions"
           /\ (Child(m, leaf) # NoMod \/ HasOwnAttr(ms, m, leaf))
        THEN Res(ms, TRUE)                        \* register_buffer: KeyError
        ELSE IF leaf = "encoded_exponent"
        THEN PatternLoop(RegisterHook(ms1, m), m, t.parts, c.dict, 1)
        ELSE IF leaf = "output_positions"
        THEN IF Len(ViewU32(t.value.data)) < 2
             THEN Res(ms1, TRUE)                  \* max() of an empty array
             ELSE Res([ms1 EXCEPT ![m].smem = SharedMemSize(c.tpb, t.value.data)],
                      FALSE)
        ELSE Res(ms1, FALSE)

\* The loop body without the state_dict test of line 184: a name met again
\* is attached again.
AttachOneAlways(ms, c, t) ==
    LET m == Navigate(ms, "root", Front(t.parts))
    IN  IF m = Missing THEN [ms |-> ms, out |-> "diag"]
        ELSE IF m = Object THEN [ms |-> ms, out |-> "raised"]
        ELSE LET r == AttachLeaf(ms, c, m, t)
             IN  [ms |-> r.ms, out |-> IF r.raised THEN "raised" ELSE "ok"]

\* One iteration of the loop over loaded_tensors.items(): lines 182-259.
\* out is "ok", "diag" (a diagnostic was printed) or "raised".
Step(ms, out) == [ms |-> ms, out |-> out]

\* The copies of lines 190 and 197 made without the shape tests of lines
\* 189 and 196.
AttachOneUnchecked(ms, c, t) ==
    IF IsParam(ms, t.parts)
    THEN Step([ms EXCEPT ![OwnerOf(t.parts)].weight.val = t.value.data], "ok")
    ELSE IF IsBuffer(ms, t.parts)
    THEN Step([ms EXCEPT ![OwnerOf(t.parts)].bufs[Last(t.parts)] = t.value], "ok")
    ELSE LET m == Navigate(ms, "root", Front(t.parts))
         IN  IF m = Missing THEN Step(ms, "diag")
             ELSE IF m = Object THEN Step(ms, "raised")
             ELSE LET r == AttachLeaf(ms, c, m, t)
                  IN  Step(r.ms, IF r.raised THEN "raised" ELSE "ok")

AttachOne(ms, c, t) ==
    IF IsParam(ms, t.parts)
    THEN LET m == OwnerOf(t.parts)
         IN  IF Numel[m] = t.value.numel
             THEN Step([ms EXCEPT ![m].weight.val = t.value.data], "ok")
             ELSE Step(ms, "diag")
    ELSE IF IsBuffer(ms, t.parts)
    THEN LET m == OwnerOf(t.parts)
         IN  IF ms[m].bufs[Last(t.parts)].numel = t.value.numel
             THEN Step([ms EXCEPT ![m].bufs[Last(t.parts)] = t.value], "ok")
             ELSE Step(ms, "diag")
    ELSE LET m == Navigate(ms, "root", Front(t.parts))
         IN  IF m = Missing THEN Step(ms, "diag")
             ELSE IF m = Object THEN Step(ms, "raised")
             ELSE LET r == AttachLeaf(ms, c, m, t)
                  IN  Step(r.ms, IF r.raised THEN "raised" ELSE "ok")

AttachTensor ==
    /\ phase = "attach"
    /\ stream # << >>
    /\ LET r == AttachOne(mod, cfg, Head(stream))
       IN  /\ mod' = r.ms
           /\ diags' = IF r.out = "diag" THEN diags \cup {Head(stream).parts} ELSE diags
           /\ again' = IF IsParam(mod, Head(stream).parts)
                           \/ IsBuffer(mod, Head(stream).parts)
                        THEN again \cup {Head(stream).parts} ELSE again
           /\ phase' = IF r.out = "raised" THEN "failed" ELSE "attach"
           /\ stream' = Tail(stream)
    /\ UNCHANGED <<cfg, shards, noSplit, dev, pool, nextId, content, ret, last, fwd, hk>>

\* ------------------------------------------------ get_no_split_classes
\* Lines 278-286: patterns outermost, named_modules() inside, a class
\* name appended when it is not in the list yet.
RECURSIVE NoSplitScan(_, _, _, _)
NoSplitScan(dict, i, j, acc) ==
    IF i > Len(dict) THEN acc
    ELSE IF j > Len(NamedModules) THEN NoSplitScan(dict, i + 1, 1, acc)
    ELSE LET cn == ClassOf[NamedModules[j]]
         IN  IF FullMatch(dict[i], PathOf[NamedModules[j]]) /\ cn \notin Range(acc)
             THEN NoSplitScan(dict, i, j + 1, Append(acc, cn))
             ELSE NoSplitScan(dict, i, j + 1, acc)

\* The scan without the membership test of line 283.
RECURSIVE NoSplitScanDup(_, _, _, _)
NoSplitScanDup(dict, i, j, acc) ==
    IF i > Len(dict) THEN acc
    ELSE IF j > Len(NamedModules) THEN NoSplitScanDup(dict, i + 1, 1, acc)
    ELSE IF FullMatch(dict[i], PathOf[NamedModules[j]])
         THEN NoSplitScanDup(dict, i, j + 1, Append(acc, ClassOf[NamedModules[j]]))
         ELSE NoSplitScanDup(dict, i, j + 1, acc)

GetNoSplitClassesDup(dict) == NoSplitScanDup(dict, 1, 1, << >>)

\* The scan returning after the first pattern.
GetNoSplitClassesFirst(dict) == NoSplitScan(SubSeq(dict, 1, 1), 1, 1, << >>)

GetNoSplitClasses(dict) == NoSplitScan(dict, 1, 1, << >>)

\* ------------------------------------------- from_pretrained: placement
\* The device maps infer_auto_device_map can return: the modules in model
\* order fill cuda:0, then cuda:1, and no module of a class in classes is
\* cut in two.
AutoMaps(classes) ==
    {d \in {[m \in Mods |-> IF \E k \in 1..c : NamedModules[k] = m
                             THEN "cuda:0" ELSE "cuda:1"] :
            c \in 0..Len(NamedModules)} :
        \A a, m \in Mods :
            (ClassOf[a] \in Range(classes) /\ Within(m, a)) => d[m] = d[a]}

NotPlaced    == [auto |-> FALSE, classes |-> << >>]
PlacedTo     == [auto |-> FALSE, classes |-> << >>]
PlacedAuto(ns) == [auto |-> TRUE, classes |-> ns]

\* Lines 371-372: model.to(device).
PlaceOnDevice(d) ==
    /\ phase = "attach"
    /\ stream = << >>
    /\ dev' = [m \in Mods |-> d]
    /\ noSplit' = PlacedTo
    /\ phase' = "ready"
    /\ again' = {}          \* load_and_replace_tensors has returned
    /\ UNCHANGED <<cfg, shards, stream, mod, diags, pool, nextId, content, ret, last, fwd, hk>>

\* Lines 374-379: the automatic placement under the no-split classes.
PlaceAuto ==
    /\ phase = "attach"
    /\ stream = << >>
    /\ LET ns == GetNoSplitClasses(cfg.dict)
       IN  /\ noSplit' = PlacedAuto(ns)
           /\ dev' \in AutoMaps(ns)
    /\ phase' = "ready"
    /\ again' = {}          \* load_and_replace_tensors has returned
    /\ UNCHANGED <<cfg, shards, stream, mod, diags, pool, nextId, content, ret, last, fwd, hk>>

\* -------------------------------------------------------- TensorManager
NoEntry == [id |-> 0, cap |-> 0]

\* The record of a TensorManager call: the operation, its device and
\* n_elements, whether get_tensor deleted an existing buffer (lines 59-61),
\* whether torch.cuda.empty_cache() was called, and the capacity of the
\* buffer each device lost.
NoFreed == [e \in Devices |-> 0]
NoCall  == [op |-> "none", dev |-> "none", n |-> 0, replaced |-> FALSE,
            emptyCache |-> FALSE, freed |-> NoFreed]

GetRecord(pl, d, n, replaced) ==
    [op |-> "get", dev |-> d, n |-> n, replaced |-> replaced,
     emptyCache |-> replaced,
     freed |-> IF replaced THEN [NoFreed EXCEPT ![d] = pl[d].cap] ELSE NoFreed]

\* get_tensor returning the existing tensor itself, not its first
\* n_elements.
GetTensorNoSlice(pl, nid, d, n) ==
    IF pl[d].id # 0 /\ pl[d].cap >= n
    THEN [pool |-> pl, nextId |-> nid,
          view |-> [id |-> pl[d].id, off |-> 0, len |-> pl[d].cap],
          allocated |-> FALSE, replaced |-> FALSE]
    ELSE [pool |-> [pl EXCEPT ![d] = [id |-> nid, cap |-> n]], nextId |-> nid + 1,
          view |-> [id |-> nid, off |-> 0, len |-> n], allocated |-> TRUE,
          replaced |-> pl[d].id # 0]

\* A buffer of its own for every request: nothing is reused.
GetTensorFresh(pl, nid, d, n) ==
    [pool |-> [pl EXCEPT ![d] = [id |-> nid, cap |-> n]], nextId |-> nid + 1,
     view |-> [id |-> nid, off |-> 0, len |-> n], allocated |-> TRUE,
     replaced |-> pl[d].id # 0]

\* A buffer fitted to every request: replaced whenever its size differs.
GetTensorExact(pl, nid, d, n) ==
    IF pl[d].id # 0 /\ pl[d].cap = n
    THEN [pool |-> pl, nextId |-> nid,
          view |-> [id |-> pl[d].id, off |-> 0, len |-> n], allocated |-> FALSE,
          replaced |-> FALSE]
    ELSE [pool |-> [pl EXCEPT ![d] = [id |-> nid, cap |-> n]], nextId |-> nid + 1,
          view |-> [id |-> nid, off |-> 0, len |-> n], allocated |-> TRUE,
          replaced |-> pl[d].id # 0]

\* get_tensor(device, n_elements): lines 52-70.  The result: the pool, the
\* next identity, the view returned and whether torch.empty was called.
GetTensor(pl, nid, d, n) ==
    IF pl[d].id # 0 /\ pl[d].cap >= n
    THEN [pool |-> pl, nextId |-> nid,
          view |-> [id |-> pl[d].id, off |-> 0, len |-> n], allocated |-> FALSE,
          replaced |-> FALSE]
    ELSE [pool |-> [pl EXCEPT ![d] = [id |-> nid, cap |-> n]], nextId |-> nid + 1,
          view |-> [id |-> nid, off |-> 0, len |-> n], allocated |-> TRUE,
          replaced |-> pl[d].id # 0]

\* Every entry dropped whatever the device named.
ClearDeviceEvery(pl, d) == [e \in Devices |-> [id |-> 0, cap |-> 0]]

\* clear_device(device): lines 80-92; "all" stands for device=None.
ClearDevice(pl, d) ==
    IF d = "all" THEN [e \in Devices |-> NoEntry]
    ELSE [pl EXCEPT ![d] = NoEntry]

\* A direct call of TensorManager.get_tensor.
GetCall(d, n) ==
    /\ LET r == GetTensor(pool, nextId, d, n)
       IN  /\ r.nextId <= MaxAllocs + 1
           /\ pool' = r.pool
           /\ nextId' = r.nextId
           /\ ret' = r.view
           /\ last' = GetRecord(pool, d, n, r.replaced)
    /\ UNCHANGED <<cfg, shards, stream, mod, phase, diags, again, noSplit, dev, content, fwd, hk>>

\* A direct call of TensorManager.clear_device.
ClearCall(d) ==
    /\ pool' = ClearDevice(pool, d)
    /\ last' = [op |-> "clear", dev |-> d, n |-> 0, replaced |-> FALSE,
                emptyCache |-> TRUE,                               \* line 92
                freed |-> [e \in Devices |->
                             IF ClearDevice(pool, d)[e].id = 0 THEN pool[e].cap ELSE 0]]
    /\ UNCHANGED <<cfg, shards, stream, mod, phase, diags, again, noSplit, dev, nextId,
                   content, ret, fwd, hk>>

\* ---------------------------------------------------------- decode_hook
\* The quotient rounded down in place of up.
BlocksPerGridFloor(nBytes, tpb, bpt) == nBytes \div (tpb * bpt)

\* int(math.ceil(n_bytes / (threads_per_block[0] * bytes_per_thread))):
\* line 122.  The quotient is a float; for operands below 2^53, which
\* tensor sizes are, its ceiling is the ceiling of the exact quotient.
BlocksPerGrid(nBytes, tpb, bpt) == (nBytes + tpb * bpt - 1) \div (tpb * bpt)

Min(a, b) == IF a <= b THEN a ELSE b

\* torch.tensor_split(x, indices) of a flat tensor of n elements: the
\* [start, end) bounds of the Len(indices) + 1 pieces.
TensorSplit(n, idx) ==
    [i \in 1..(Len(idx) + 1) |->
        LET lo == IF i = 1 THEN 0 ELSE Min(idx[i - 1], n)
            hi == IF i = Len(idx) + 1 THEN n ELSE Min(idx[i], n)
        IN  [off |-> lo, len |-> IF hi >= lo THEN hi - lo ELSE 0]]

\* What the external kernel can do when called: decode, fail before it
\* wrote anything, or fail having written part of the output.
KernelOutcomes == {"ok", "failed", "failedPartway"}

\* The state a hook invocation works on; kernel is what the decode kernel
\* does when this invocation calls it.
HookState(ms, pl, nid, ct, rt, la, h, k) ==
    [mod |-> ms, pool |-> pl, nextId |-> nid, content |-> ct, ret |-> rt,
     last |-> la, hk |-> h, kernel |-> k]

\* The record of a hook invocation: its module, the number of kernel
\* calls, the error it raised ("none", "attr", "kernel" or "view") and the
\* launch geometry it computed.
Hk(m, k, err, nb, bl) ==
    [module |-> m, kernel |-> k, raised |-> err # "none", err |-> err,
     nbytes |-> nb, blocks |-> bl]

\* Every member given its element count from the start of the output.
RECURSIVE InstallSplitAtZero(_, _, _, _, _)
InstallSplitAtZero(ms, subs, pieces, id, i) ==
    IF i > Len(subs) \/ i > Len(pieces) THEN [ms |-> ms, raised |-> FALSE]
    ELSE IF pieces[i].len # Numel[subs[i]] \/ ms[subs[i]].weight.kind = "param"
    THEN [ms |-> ms, raised |-> TRUE]
    ELSE InstallSplitAtZero([ms EXCEPT ![subs[i]].weight = ViewW(id, 0, pieces[i].len)],
                            subs, pieces, id, i + 1)

\* Lines 150-151: zip(weight_injection_modules, weights), one assignment
\* per pair; a view of the wrong element count raises.
RECURSIVE InstallSplit(_, _, _, _, _)
InstallSplit(ms, subs, pieces, id, i) ==
    IF i > Len(subs) \/ i > Len(pieces) THEN Res(ms, FALSE)
    ELSE IF pieces[i].len # Numel[subs[i]] \/ ms[subs[i]].weight.kind = "param"
    THEN Res(ms, TRUE)
    ELSE InstallSplit([ms EXCEPT ![subs[i]].weight =
                                    ViewW(id, pieces[i].off, pieces[i].len)],
                      subs, pieces, id, i + 1)

\* Lines 138-151: the decoded tensor becomes the weight of the target.
Install(ms, m, id, n) ==
    IF IsLinear(m) \/ IsEmbedding(m)
    THEN IF n # Numel[m] \/ ms[m].weight.kind = "param" THEN Res(ms, TRUE)
         ELSE Res([ms EXCEPT ![m].weight = ViewW(id, 0, n)], FALSE)
    ELSE IF ~ms[m].split.set \/ ~ms[m].wim.set THEN Res(ms, TRUE)
    ELSE InstallSplit(ms, ms[m].wim.v, TensorSplit(n, ms[m].split.v), id, 1)

\* The kernel handed a pointer that is not the pooled buffer's: the buffer
\* keeps what it held.
DecodeElsewhere(ct, id, m) == ct

\* The kernel call of lines 125-136: it writes the layer's n_elements
\* decoded values into the output buffer.
Decode(ct, id, m) == [ct EXCEPT ![id] = m]

\* A failed kernel may leave part of another decode in the buffer.
Spoil(ct, id, outcome) ==
    IF outcome = "failedPartway" THEN [ct EXCEPT ![id] = "partial"] ELSE ct

\* The failure of the kernel swallowed: the weights are installed all the
\* same and the error is raised afterwards.
LaunchAndInstallAnyway(s1, m, id, n, nb, bl) ==
    LET r == Install(s1.mod, m, id, n)
    IN  IF s1.kernel = "ok"
        THEN [s1 EXCEPT !.content = Decode(s1.content, id, m),
                        !.mod = r.ms,
                        !.hk = Hk(m, 1, IF r.raised THEN "view" ELSE "none", nb, bl)]
        ELSE [s1 EXCEPT !.content = Spoil(s1.content, id, s1.kernel),
                        !.mod = r.ms,
                        !.hk = Hk(m, 1, "kernel", nb, bl)]

\* Lines 125-151: the kernel call, then the installation of the weights;
\* an exception of the kernel leaves the hook at once.
Launch(s1, m, id, n, nb, bl) ==
    IF s1.kernel = "ok"
    THEN LET r == Install(s1.mod, m, id, n)
         IN  [s1 EXCEPT !.content = Decode(s1.content, id, m),
                        !.mod = r.ms,
                        !.hk = Hk(m, 1, IF r.raised THEN "view" ELSE "none", nb, bl)]
    ELSE [s1 EXCEPT !.content = Spoil(s1.content, id, s1.kernel),
                    !.hk = Hk(m, 1, "kernel", nb, bl)]

\* decode_hook(module, _): lines 111-151, on module m placed on device d.
DecodeHook(st, c, m, d) ==
    LET b == st.mod[m].bufs
    IN  IF ~b["sign_mantissa"].present \/ ~b["encoded_exponent"].present
           \/ ~b["luts"].present
        THEN [st EXCEPT !.hk = Hk(m, 0, "attr", 0, 0)]
        ELSE
        LET n  == b["sign_mantissa"].numel
            nb == b["encoded_exponent"].numel
            g  == GetTensor(st.pool, st.nextId, d, n)
            bl == BlocksPerGrid(nb, c.tpb, c.bpt)
            s1 == [st EXCEPT !.pool = g.pool, !.nextId = g.nextId, !.ret = g.view,
                             !.last = GetRecord(st.pool, d, n, g.replaced)]
        IN  IF ~b["output_positions"].present \/ ~b["gaps"].present
               \/ st.mod[m].smem = NoSmem
            THEN [s1 EXCEPT !.hk = Hk(m, 0, "attr", nb, bl)]
            ELSE Launch(s1, m, g.view.id, n, nb, bl)

\* The pre-hooks registered on m run one after another; a raise ends them.
RECURSIVE RunHooks(_, _, _, _, _)
RunHooks(st, c, m, d, k) ==
    IF k = 0 THEN st
    ELSE LET s1 == DecodeHook(st, c, m, d)
         IN  IF s1.hk.raised THEN s1 ELSE RunHooks(s1, c, m, d, k - 1)

\* ------------------------------------------------------- forward passes
LayerAt(p) == ForwardOrder[fwd[p].i]

\* The layers whose weight the forward computation of layer m reads.
ReadsOf(m) == IF IsLinear(m) \/ IsEmbedding(m) THEN {m}
              ELSE {c \in Mods : Within(c, m) /\ Numel[c] > 0}

\* What reading weight w yields: the data of the layer that last decoded
\* into the allocation it views, "native" for a parameter.
DataOf(w, ct) == IF w.kind = "param" THEN "native" ELSE ct[w.buf]

AtRest(p) == fwd[p].ph \in {"idle", "done", "raised"}

\* A pass is in flight on the device of the layer it is at.
InFlightOn(p, d) == ~AtRest(p) /\ dev[LayerAt(p)] = d

\* serial: no other pass is in flight on the device of layer i.
MayEnter(p, i, serial) ==
    serial => \A q \in Passes \ {p} : ~InFlightOn(q, dev[ForwardOrder[i]])

NoRead == [layer |-> "none", data |-> {}]
Idle   == [i |-> 0, ph |-> "idle", read |-> NoRead, err |-> "none"]

\* model(...) is called: the pass arrives at the first layer.
StartPass(p, serial) ==
    /\ phase = "ready"
    /\ AtRest(p)
    /\ MayEnter(p, 1, serial)
    /\ fwd' = [fwd EXCEPT ![p] = [i |-> 1, ph |-> "pre", read |-> NoRead,
                                  err |-> "none"]]
    /\ UNCHANGED <<cfg, shards, stream, mod, phase, diags, again, noSplit, dev, pool, nextId,
                   content, ret, last, hk>>

\* Module.__call__ of the layer runs its forward pre-hooks.
\* k is what the decode kernel does if it is called.
PreHook(p, k) ==
    /\ fwd[p].ph = "pre"
    /\ LET m  == LayerAt(p)
           st == RunHooks(HookState(mod, pool, nextId, content, ret, last, hk, k),
                          cfg, m, dev[m], mod[m].hooks)
       IN  /\ st.nextId <= MaxAllocs + 1
           /\ mod' = st.mod
           /\ pool' = st.pool
           /\ nextId' = st.nextId
           /\ content' = st.content
           /\ ret' = st.ret
           /\ last' = st.last
           /\ hk' = st.hk
           /\ fwd' = IF mod[m].hooks > 0 /\ st.hk.raised
                      THEN [fwd EXCEPT ![p].ph = "raised", ![p].err = st.hk.err]
                      ELSE [fwd EXCEPT ![p].ph = "fwd"]
    /\ UNCHANGED <<cfg, shards, stream, phase, diags, again, noSplit, dev>>

\* The layer's forward computation reads its weights; the pass goes on to
\* the next layer.
Forward(p, serial) ==
    /\ fwd[p].ph = "fwd"
    /\ LET m == LayerAt(p)
       IN  IF \E t \in ReadsOf(m) : mod[t].weight.kind = "none"
           THEN fwd' = [fwd EXCEPT ![p].ph = "raised", ![p].err = "attr"]
           ELSE /\ fwd[p].i < Len(ForwardOrder) => MayEnter(p, fwd[p].i + 1, serial)
                /\ fwd' = [fwd EXCEPT ![p] =
                     [i    |-> IF @.i < Len(ForwardOrder) THEN @.i + 1 ELSE @.i,
                      ph   |-> IF @.i < Len(ForwardOrder) THEN "pre" ELSE "done",
                      read |-> [layer |-> m,
                                data  |-> {<<t, DataOf(mod[t].weight, content)>> :
                                             t \in ReadsOf(m)}],
                      err  |-> "none"]]
    /\ UNCHANGED <<cfg, shards, stream, mod, phase, diags, again, noSplit, dev, pool, nextId,
                   content, ret, last, hk>>

\* ---------------------------------------------------------- behaviour
NoView == [id |-> 0, off |-> 0, len |-> 0]
NoHook == Hk("none", 0, "none", 0, 0)

Init ==
    /\ cfg \in {[dict |-> d, tpb |-> t, bpt |-> b] :
                  d \in PatternDicts, t \in TpbChoices, b \in BptChoices}
    /\ stream \in Streams(cfg.dict)
    /\ shards = Range(stream)
    /\ mod = [m \in Mods |-> FreshModule(m)]
    /\ phase = "attach"
    /\ diags = {}
    /\ again = {}
    /\ noSplit = NotPlaced
    /\ dev = [m \in Mods |-> "cpu"]
    /\ pool = [d \in Devices |-> [id |-> 0, cap |-> 0]]
    /\ nextId = 1
    /\ content = [i \in 1..MaxAllocs |-> "none"]
    /\ ret = NoView
    /\ last = NoCall
    /\ fwd = [p \in Passes |-> Idle]
    /\ hk = NoHook

Load ==
    \/ AttachTensor
    \/ \E d \in Devices : PlaceOnDevice(d)
    \/ PlaceAuto

PoolCalls ==
    \/ \E d \in Devices, n \in 0..MaxN : GetCall(d, n)
    \/ \E d \in Devices \cup {"all"} : ClearCall(d)

\* The caller of the loaded model releases buffers between forward passes
\* (clear_device() in the life of a model below; SpecPool has every call).
ClearBetweenPasses(d) ==
    /\ phase = "ready"
    /\ \A p \in Passes : AtRest(p)
    /\ ClearCall(d)

\* The life of a loaded model: from_pretrained, then forward passes that
\* may overlap.
Next ==
    \/ Load
    \/ \E p \in Passes : StartPass(p, FALSE)
    \/ \E p \in Passes : PreHook(p, "ok")
    \/ \E p \in Passes : Forward(p, FALSE)
    \/ ClearBetweenPasses("all")

\* The same, the callers keeping to the stated discipline: at most one
\* forward pass in flight per device.
NextSerial ==
    \/ Load
    \/ \E p \in Passes : StartPass(p, TRUE)
    \/ \E p \in Passes : PreHook(p, "ok")
    \/ \E p \in Passes : Forward(p, TRUE)
    \/ ClearBetweenPasses("all")

Spec == Init /\ [][Next]_vars

SpecSerial == Init /\ [][NextSerial]_vars

\* The serial life with a decode kernel that may fail.
NextFault ==
    \/ Load
    \/ \E p \in Passes : StartPass(p, TRUE)
    \/ \E p \in Passes, k \in KernelOutcomes : PreHook(p, k)
    \/ \E p \in Passes : Forward(p, TRUE)
    \/ ClearBetweenPasses("all")

\* It is run on the checkpoint of one configuration: every kind of layer
\* compressed, its files in model order.
InitFault ==
    /\ Init
    /\ cfg.dict = <<PEmbed, PAttn>>
    /\ stream = FileOf("embed", cfg.dict) \o FileOf("attn", cfg.dict)

SpecFault == InitFault /\ [][NextFault]_vars

\* TensorManager on its own: any sequence of get_tensor and clear_device
\* calls, no model loaded.
InitPool ==
    /\ Init
    /\ cfg = [dict |-> <<PNone>>, tpb |-> 128, bpt |-> 4]

SpecPool == InitPool /\ [][PoolCalls]_vars

\* A pattern whose list names one sub-layer twice.
PTwice == [name |-> "at{2}n", matches |-> {<<"attn">>},
           attrs |-> << <<"q">>, <<"q">> >>]

AttachDicts == PatternDicts \cup {<<PTwice>>}

\* load_and_replace_tensors on its own, over any checkpoint directory.
InitAttach ==
    /\ cfg \in {[dict |-> d, tpb |-> t, bpt |-> b] :
                  d \in AttachDicts, t \in TpbChoices, b \in BptChoices}
    /\ stream \in AnyStreams(cfg.dict)
    /\ shards = Range(stream)
    /\ mod = [m \in Mods |-> FreshModule(m)]
    /\ phase = "attach"
    /\ diags = {}
    /\ again = {}
    /\ noSplit = NotPlaced
    /\ dev = [m \in Mods |-> "cpu"]
    /\ pool = [d \in Devices |-> [id |-> 0, cap |-> 0]]
    /\ nextId = 1
    /\ content = [i \in 1..MaxAllocs |-> "none"]
    /\ ret = NoView
    /\ last = NoCall
    /\ fwd = [p \in Passes |-> Idle]
    /\ hk = NoHook

SpecAttach == InitAttach /\ [][AttachTensor]_vars

\* load_and_replace_tensors taking the tensors in an order of its
\* environment's choosing: os.listdir orders the files (line 174) and
\* load_file the items of a file (line 179).  stream holds the tensors
\* left; any one of them can be the next the loop meets.
AttachAny(i) ==
    /\ phase = "attach"
    /\ i \in 1..Len(stream)
    /\ LET r == AttachOne(mod, cfg, stream[i])
       IN  /\ mod' = r.ms
           /\ diags' = IF r.out = "diag" THEN diags \cup {stream[i].parts} ELSE diags
           /\ again' = IF IsParam(mod, stream[i].parts)
                           \/ IsBuffer(mod, stream[i].parts)
                        THEN again \cup {stream[i].parts} ELSE again
           /\ phase' = IF r.out = "raised" THEN "failed" ELSE "attach"
           /\ stream' = SubSeq(stream, 1, i - 1) \o SubSeq(stream, i + 1, Len(stream))
    /\ UNCHANGED <<cfg, shards, noSplit, dev, pool, nextId, content, ret, last, fwd, hk>>

\* The pattern dicts of the loads whose order is left open: every dict of
\* one pattern, and three of two patterns (in the last, fc matches both).
OrderDicts ==
    {<<p>> : p \in PatternUniverse \cup {PTwice}}
    \cup {<<PAttn, PFc>>, <<PFc, PEmbed>>, <<PFc, PFq>>}

\* The directories of those loads, every tensor name occurring once: the
\* layers' files, alone or with a native weight, with a tensor under a
\* module path the model lacks, or with one layer's positions cut to one.
TensorSets(dict) ==
    LET files == {FileOf(m, dict) : m \in Compressed(dict)}
        base  == Flatten(CHOOSE p \in Perms(files) : TRUE)
        cut(m) == Flatten(CHOOSE p \in Perms((files \ {FileOf(m, dict)})
                                              \cup {SinglePositionFileOf(m, dict)}) : TRUE)
    IN  {base, base \o OrphanFile}
        \cup {base \o RawFileOf(t, e) : t \in NativeLayers(dict), e \in {0, 1}}
        \cup {cut(m) : m \in Compressed(dict)}

InitOrder ==
    /\ cfg \in {[dict |-> d, tpb |-> t, bpt |-> b] :
                  d \in OrderDicts, t \in TpbChoices, b \in BptChoices}
    /\ stream \in TensorSets(cfg.dict)
    /\ shards = Range(stream)
    /\ mod = [m \in Mods |-> FreshModule(m)]
    /\ phase = "attach"
    /\ diags = {}
    /\ again = {}
    /\ noSplit = NotPlaced
    /\ dev = [m \in Mods |-> "cpu"]
    /\ pool = [d \in Devices |-> [id |-> 0, cap |-> 0]]
    /\ nextId = 1
    /\ content = [i \in 1..MaxAllocs |-> "none"]
    /\ ret = NoView
    /\ last = NoCall
    /\ fwd = [p \in Passes |-> Idle]
    /\ hk = NoHook

SpecOrder == InitOrder /\ [][\E i \in 1..Len(stream) : AttachAny(i)]_vars

\* The launch geometry of decode_hook on its own: any encoded length under
\* any thread configuration.
MaxBytes == 13

GridTpb   == {1, 3, 128, 256}
GridBpt   == {1, 4, 8}
GridBytes == (1..MaxBytes) \cup {1000, 1024, 1025}

InitGrid ==
    /\ cfg \in {[dict |-> <<PNone>>, tpb |-> t, bpt |-> b] :
                  t \in GridTpb, b \in GridBpt}
    /\ stream = << >>
    /\ shards = {}
    /\ mod = [m \in Mods |-> FreshModule(m)]
    /\ phase = "attach"
    /\ diags = {}
    /\ again = {}
    /\ noSplit = NotPlaced
    /\ dev = [m \in Mods |-> "cpu"]
    /\ pool = [d \in Devices |-> [id |-> 0, cap |-> 0]]
    /\ nextId = 1
    /\ content = [i \in 1..MaxAllocs |-> "none"]
    /\ ret = NoView
    /\ last = NoCall
    /\ fwd = [p \in Passes |-> Idle]
    /\ hk = NoHook

\* Line 122 for an encoded exponent of nBytes bytes.
LaunchGeometry(nBytes) ==
    /\ hk' = Hk("none", 0, "none", nBytes, BlocksPerGrid(nBytes, cfg.tpb, cfg.bpt))
    /\ UNCHANGED <<cfg, shards, stream, mod, phase, diags, again, noSplit, dev, pool,
                   nextId, content, ret, last, fwd>>

SpecGrid == InitGrid /\ [][\E n \in GridBytes : LaunchGeometry(n)]_vars

\* ============================================================== claims
Hooked(m)    == mod[m].hooks > 0
Attached(m)  == mod[m].bufs["encoded_exponent"].present
AttachDone   == stream = << >> /\ phase \in {"attach", "ready"}
IsGroup(m)   == ~IsLinear(m) /\ ~IsEmbedding(m)
PoolIds(pl)  == {pl[d].id : d \in Devices} \ {0}

\* What one get_tensor(d, n) call must have done to the pool and returned.
C1_GetStep(d, n) ==
    LET grow == pool[d].id = 0 \/ n > pool[d].cap
    IN  /\ ret'.len = n
        /\ ret'.off = 0
        /\ ret'.id = pool'[d].id
        /\ pool'[d].id # 0
        /\ grow => /\ pool'[d].id \notin PoolIds(pool)
                   /\ pool'[d].id # ret.id
                   /\ pool'[d].cap = n
        /\ ~grow => /\ pool'[d] = pool[d]
                    /\ ret'.id = pool[d].id

\* C1: get_tensor(device, n) returns a view of exactly n elements of the
\* device's buffer; the buffer is replaced, by a fresh one of exactly n
\* elements, iff the device had none or n exceeds its capacity; otherwise
\* the pool entry is unchanged and the view is the first n elements of the
\* existing buffer.
C1_GetContract ==
    [][\A d \in Devices, n \in 0..MaxN : GetCall(d, n) => C1_GetStep(d, n)]_vars

\* C1 witness: a call was served as a proper prefix of a larger buffer.
C1_Witness ==
    \E d \in Devices : /\ pool[d].id # 0
                       /\ ret.id = pool[d].id
                       /\ ret.len > 0
                       /\ ret.len < pool[d].cap

\* The layers a hooked module's decode writes weights into.
TargetOf(m) == IF IsGroup(m) THEN Range(mod[m].wim.v) ELSE {m}

\* C2: with at most one forward pass in flight per device, the weights a
\* compressed layer's forward computation reads hold that layer's own
\* decoded tensor: between its hook and its read they are views of storage
\* that this layer's decode wrote last, and so is what the read returned.
C2_OwnWeights ==
    \A p \in Passes :
        /\ (fwd[p].ph = "fwd" /\ Hooked(LayerAt(p))) =>
              \A t \in TargetOf(LayerAt(p)) :
                  /\ mod[t].weight.kind = "view"
                  /\ content[mod[t].weight.buf] = LayerAt(p)
        /\ (fwd[p].read.layer # "none" /\ Hooked(fwd[p].read.layer)) =>
              \A t \in TargetOf(fwd[p].read.layer) :
                  <<t, fwd[p].read.layer>> \in fwd[p].read.data

\* C2 witness: a pass has read both projections of the attention group
\* while the other pass was under way.
C2_Witness ==
    \E p, q \in Passes :
        /\ p # q
        /\ fwd[p].read.layer = "attn"
        /\ {<<"attn.q", "attn">>, <<"attn.k", "attn">>} \subseteq fwd[p].read.data
        /\ ~AtRest(q)

\* The bounds of the i-th piece of the output of group m cut at its
\* split positions.
C3_PieceStart(m, i) == IF i = 1 THEN 0 ELSE mod[m].split.v[i - 1]
C3_PieceEnd(m, i) ==
    IF i = Len(mod[m].split.v) + 1 THEN mod[m].bufs["sign_mantissa"].numel
    ELSE mod[m].split.v[i]

\* C3: an invocation of the hook of a split group calls the kernel once and
\* gives the i-th recorded sub-layer the i-th piece of the flat output cut
\* at split_positions; with split_positions = [N] and two sub-layers the
\* first gets [0, N) and the second [N, n_elements); every piece goes to
\* exactly one sub-layer.
C3_SplitInstall ==
    (hk.module # "none" /\ IsGroup(hk.module)) =>
        LET m == hk.module
            subs == mod[m].wim.v
        IN  /\ hk.kernel = 1
            /\ ~hk.raised
            /\ Len(subs) = Len(mod[m].split.v) + 1
            /\ \A i, j \in 1..Len(subs) : subs[i] = subs[j] => i = j
            /\ \A i \in 1..Len(subs) :
                  mod[subs[i]].weight =
                      ViewW(ret.id, C3_PieceStart(m, i),
                            C3_PieceEnd(m, i) - C3_PieceStart(m, i))
            /\ (mod[m].split.v = <<1>> /\ Len(subs) = 2) =>
                  /\ mod[subs[1]].weight = ViewW(ret.id, 0, 1)
                  /\ mod[subs[2]].weight = ViewW(ret.id, 1, ret.len - 1)

\* C3 witness: the hook of the two-member group has run.
C3_Witness ==
    /\ hk.module = "attn"
    /\ mod["attn"].wim.v = <<"attn.q", "attn.k">>
    /\ mod["attn"].split.v = <<1>>
    /\ mod["attn.k"].weight.kind = "view"

\* C4: every module an encoded exponent was attached to has exactly one
\* decode hook, whatever the number of its sub-layers, of the patterns
\* matching it and of the occurrences of its tensor names; it holds after
\* attach because it holds after every tensor.
C4_OneHook ==
    \A m \in Mods : mod[m].hooks = IF Attached(m) THEN 1 ELSE 0

\* C4 witness: attach completed on a stream that named the group's encoded
\* exponent twice, under two patterns that both match the group.
C4_Witness ==
    /\ AttachDone
    /\ Attached("attn")
    /\ <<"attn", "encoded_exponent">> \in again
    /\ Len(mod["attn"].wim.v) = 1
    /\ Cardinality({i \in 1..Len(cfg.dict) : FullMatch(cfg.dict[i], <<"attn">>)}) = 2
    /\ mod["attn"].hooks = 1

\* The target the first pattern matching m's path names (the group's
\* resolved sub-layers, none for a dense or embedding layer).
FirstPattern(m) == cfg.dict[FirstMatch(cfg.dict, PathOf[m])]
Stripped(t)     == mod[t].weight.kind = "none"

\* C5: after attach, a module matched by a pattern with an empty list is
\* itself the sole target and has lost its native weight; one matched by a
\* pattern with a non-empty list has lost the native weight of every listed
\* sub-layer and records exactly those sub-layers, in list order.  (The
\* pattern of a module is its first match, as C6 states.)
C5_TargetsStripped ==
    AttachDone =>
        \A m \in Mods :
            (Attached(m) /\ FirstMatch(cfg.dict, PathOf[m]) # 0) =>
                LET pat == FirstPattern(m)
                IN  /\ pat.attrs = << >> => (Stripped(m) /\ ~mod[m].wim.set)
                    /\ pat.attrs # << >> =>
                          /\ mod[m].wim = SetTo(Targets(m, pat.attrs))
                          /\ \A i \in 1..Len(pat.attrs) :
                                Stripped(Resolve(m, pat.attrs[i]))

\* The modules whose native weight the first matches of the attached
\* modules ask to remove.
C6_Expected ==
    UNION {IF IsGroup(m) THEN Range(Targets(m, FirstPattern(m).attrs)) ELSE {m} :
             m \in {x \in Mods : Attached(x) /\ FirstMatch(cfg.dict, PathOf[x]) # 0}}

\* C6: when several patterns match a module's path, its target is resolved
\* from the first of them only: the later ones change no recorded target,
\* strip no further weight and raise no error.
C6_FirstMatchOnly ==
    /\ phase # "failed"
    /\ \A m \in Mods :
          (Attached(m) /\ IsGroup(m) /\ mod[m].wim.set) =>
                mod[m].wim.v = Targets(m, FirstPattern(m).attrs)
    /\ \A t \in Mods : (Numel[t] > 0 /\ Stripped(t)) => t \in C6_Expected

\* Module m has a target of one of the three shapes, taken from a pattern
\* that matches it.
C7_TargetShape(m) ==
    /\ \E i \in 1..Len(cfg.dict) :
          /\ FullMatch(cfg.dict[i], PathOf[m])
          /\ IsGroup(m) => mod[m].wim.v = Targets(m, cfg.dict[i].attrs)
    /\ IF IsGroup(m)
       THEN /\ mod[m].wim.set
            /\ \A t \in Range(mod[m].wim.v) : t \in Mods /\ IsLinear(t) /\ ~(mod[t].weight.kind = "param")
       ELSE /\ ~mod[m].wim.set
            /\ mod[m].weight.kind # "param"

Matched(dict) ==
    {m \in Mods : \E i \in 1..Len(dict) : FullMatch(dict[i], PathOf[m])}

\* C8: get_no_split_classes returns exactly the class names of the modules
\* whose path matches some pattern, each once, and nothing when no module
\* matches.
C8_NoSplitExact ==
    noSplit.auto =>
        LET ns == noSplit.classes
        IN  /\ Range(ns) = {ClassOf[m] : m \in Matched(cfg.dict)}
            /\ \A i, j \in 1..Len(ns) : ns[i] = ns[j] => i = j
            /\ Matched(cfg.dict) = {} => ns = << >>

\* C8 witness: one pattern matched two instances of Linear, and a module
\* was matched by two patterns.
C8_Witness ==
    /\ noSplit.auto
    /\ \E i \in 1..Len(cfg.dict) :
          {<<"fc">>, <<"attn", "q">>} \subseteq cfg.dict[i].matches
    /\ \E m \in Mods :
          Cardinality({i \in 1..Len(cfg.dict) : FullMatch(cfg.dict[i], PathOf[m])}) = 2
    /\ Len(noSplit.classes) = 2

C10_MaxGap(pos) ==
    LET gaps == {pos[i + 1] - pos[i] : i \in 1..(Len(pos) - 1)}
    IN  CHOOSE g \in gaps : \A h \in gaps : g >= h

\* C10: attaching output positions sets shared_mem_size, once and during
\* the rewrite, to threads_per_block[0] * 4 + 4 + 2 * (largest gap between
\* consecutive positions); for [0, 10, 25, 40] and 128 threads it is 546.
C10_SharedMem ==
    [][\A m \in Compressible :
          /\ mod'[m].smem # NoSmem =>
                /\ mod'[m].smem = cfg.tpb * 4 + 4 + 2 * C10_MaxGap(OutputPositionsOf[m])
                /\ (OutputPositionsOf[m] = <<0, 10, 25, 40>> /\ cfg.tpb = 128) =>
                      mod'[m].smem = 546
          /\ mod[m].smem # NoSmem => mod'[m].smem = mod[m].smem
          /\ mod'[m].smem # mod[m].smem =>
                /\ phase = "attach"
                /\ Head(stream).parts = Append(PathOf[m], "output_positions")
          /\ (phase = "attach" /\ stream # << >>
                /\ Head(stream).parts = Append(PathOf[m], "output_positions")
                /\ ~mod[m].bufs["output_positions"].present) =>
                mod'[m].smem # NoSmem]_vars

\* C10 witness: the embedding's size was computed from [0, 10, 25, 40].
C10_Witness == mod["embed"].smem = 546 /\ cfg.tpb = 128

\* C11: a single output position is guarded: attaching it does not fail
\* and leaves the module with a defined shared-memory size.
C11_SingleGuarded ==
    \A m \in Compressible :
        (mod[m].bufs["output_positions"].present
           /\ mod[m].bufs["output_positions"].numel = 4) =>
            /\ phase # "failed"
            /\ mod[m].smem # NoSmem

\* C12: the grid size the hook hands to the kernel is the least b with
\* b * threads_per_block[0] * bytes_per_thread >= n_bytes; for 1000 bytes,
\* 256 threads and 4 bytes per thread it is 1.
C12_GridCeil ==
    hk.nbytes > 0 =>
        /\ hk.blocks * (cfg.tpb * cfg.bpt) >= hk.nbytes
        /\ (hk.blocks - 1) * (cfg.tpb * cfg.bpt) < hk.nbytes
        /\ (hk.nbytes = 1000 /\ cfg.tpb = 256 /\ cfg.bpt = 4) => hk.blocks = 1

\* C12 witness: the geometry of 1000 bytes under 256 threads of 4 bytes.
C12_Witness ==
    hk.nbytes = 1000 /\ cfg.tpb = 256 /\ cfg.bpt = 4 /\ hk.blocks = 1

\* C13 as stated: every buffer allocated for a device is at least as large
\* as the one allocated for it before, over any get and clear calls; here
\* for the buffer the call before released.
C13_NeverSmaller ==
    [][\A d \in Devices :
          (pool'[d].id # 0 /\ pool'[d].id # pool[d].id) =>
              /\ pool'[d].cap >= pool[d].cap
              /\ pool'[d].cap >= last.freed[d]]_vars

\* C13, amended: the pool holds one entry per device at most, and an
\* entry that exists is replaced only by a strictly larger buffer and
\* never shrinks; a get_tensor after clear_device allocates what it is
\* asked for, which may be less than what was released.
C13_GrowsWhileHeld ==
    [][\A d \in Devices :
          /\ (pool[d].id # 0 /\ pool'[d].id # 0) =>
                /\ pool'[d].cap >= pool[d].cap
                /\ pool'[d].id # pool[d].id => pool'[d].cap > pool[d].cap
                /\ pool'[d].id = pool[d].id => pool'[d].cap = pool[d].cap
          /\ (pool[d].id = 0 /\ pool'[d].id # 0) =>
                /\ last'.op = "get" /\ last'.dev = d
                /\ pool'[d].cap = last'.n]_vars

\* C13 witness: a get_tensor call has replaced a device's buffer by a
\* larger one.
C13_Witness ==
    /\ last.op = "get"
    /\ last.replaced
    /\ pool[last.dev].cap = last.n
    /\ last.freed[last.dev] < last.n
    /\ last.freed[last.dev] > 0

\* C14: clear_device(device) removes that device's entry and no other,
\* clear_device() removes every entry, both call torch.cuda.empty_cache();
\* get_tensor(device, n) changes no entry but the device's.
C14_Frame ==
    [][/\ \A d \in Devices :
             ClearCall(d) => /\ pool'[d].id = 0
                             /\ \A e \in Devices \ {d} : pool'[e] = pool[e]
                             /\ last'.emptyCache
       /\ ClearCall("all") => /\ \A e \in Devices : pool'[e].id = 0
                              /\ last'.emptyCache
       /\ \A d \in Devices, n \in 0..MaxN :
             GetCall(d, n) => \A e \in Devices \ {d} : pool'[e] = pool[e]]_vars

\* C14 witness: one device was cleared of its buffer while the other kept
\* its own.
C14_Witness ==
    /\ last.op = "clear"
    /\ last.dev \in Devices
    /\ last.freed[last.dev] > 0
    /\ pool[last.dev].id = 0
    /\ \E e \in Devices \ {last.dev} : pool[e].id # 0

\* C15: two passes overlapping on one device race on its one buffer: when
\* a pass stands between a layer's hook and its read, the layer's weights
\* viewing the device's buffer, and the other pass runs the hook of
\* another layer of that device that fits the buffer, the first layer's
\* weights hold the other layer's decoded data, which its read then
\* returns (the witness: such a read has happened).
C15_OverlapCorrupts ==
    [][\A p, q \in Passes :
          LET a == ForwardOrder[fwd[p].i]
              b == ForwardOrder[fwd[q].i]
          IN  (/\ p # q
               /\ fwd[p].ph = "fwd" /\ fwd[q].ph = "pre" /\ fwd'[q].ph = "fwd"
               /\ a # b /\ Hooked(a) /\ Hooked(b) /\ dev[a] = dev[b]
               /\ pool[dev[a]].cap >= mod[b].bufs["sign_mantissa"].numel
               /\ TargetOf(a) # {}
               /\ \A t \in TargetOf(a) : /\ mod[t].weight.kind = "view"
                                         /\ mod[t].weight.buf = pool[dev[a]].id
                                         /\ content[mod[t].weight.buf] = a) =>
              \A t \in TargetOf(a) : /\ mod'[t].weight = mod[t].weight
                                     /\ content'[mod'[t].weight.buf] = b]_vars

\* C15 witness: a layer's forward computation has read weights holding
\* another layer's decoded data.
C15_Witness ==
    \E p \in Passes :
        /\ fwd[p].read.layer # "none"
        /\ Hooked(fwd[p].read.layer)
        /\ \E t \in TargetOf(fwd[p].read.layer), x \in Compressible :
              /\ x # fwd[p].read.layer
              /\ <<t, x>> \in fwd[p].read.data

\* C16: when the decode kernel fails in a hook invocation, the pass that
\* called the layer ends with the kernel's error, the invocation has called
\* the kernel once and no more, the weight of every module is what it was
\* before the invocation, and the layer's forward computation is not run.
C16_KernelFailure ==
    [][\A p \in Passes :
          (/\ fwd[p].ph = "pre" /\ fwd'[p] # fwd[p]
           /\ mod[LayerAt(p)].hooks > 0
           /\ hk'.err = "kernel") =>
              /\ hk'.module = LayerAt(p)
              /\ hk'.kernel = 1
              /\ fwd'[p].ph = "raised" /\ fwd'[p].err = "kernel"
              /\ fwd'[p].read = fwd[p].read
              /\ \A t \in Mods : mod'[t].weight = mod[t].weight]_vars

\* C16 witness: the kernel failed in the first decode of a layer; the pass
\* has ended with the kernel's error and the layer's targets have no weight.
C16_Witness ==
    /\ hk.err = "kernel" /\ hk.kernel = 1
    /\ \E p \in Passes : /\ fwd[p].ph = "raised" /\ fwd[p].err = "kernel"
                          /\ LayerAt(p) = hk.module
    /\ TargetOf(hk.module) # {}
    /\ \A t \in TargetOf(hk.module) : mod[t].weight.kind = "none"

\* The shape of the parameter or buffer a name of the state dict denotes.
C17_ShapeOf(parts) ==
    IF IsParam(mod, parts) THEN Numel[OwnerOf(parts)]
    ELSE mod[OwnerOf(parts)].bufs[Last(parts)].numel

\* C17: a tensor named like a parameter or buffer the model has, of another
\* shape: a diagnostic is reported, the model is left as it was and the
\* loop goes on to the next tensor.  Of the same shape: the parameter or
\* buffer holds the loaded values, and the loop goes on.
C17_StateDictCopy ==
    [][(phase = "attach" /\ stream # << >> /\ stream' # stream
        /\ (IsParam(mod, Head(stream).parts) \/ IsBuffer(mod, Head(stream).parts))) =>
          LET t == Head(stream)
              m == OwnerOf(t.parts)
          IN  /\ stream' = Tail(stream)
              /\ phase' = "attach"
              /\ IF C17_ShapeOf(t.parts) # t.value.numel
                 THEN /\ t.parts \in diags'
                      /\ mod' = mod
                 ELSE /\ diags' = diags
                      /\ IF IsParam(mod, t.parts)
                         THEN /\ mod'[m].weight.kind = "param"
                              /\ mod'[m].weight.val = t.value.data
                         ELSE /\ mod'[m].bufs[Last(t.parts)].present
                              /\ mod'[m].bufs[Last(t.parts)].data = t.value.data]_vars

\* C17 witness: a buffer met again with another length was reported and
\* kept its content, and the load went on to its end attaching the record
\* of another layer.
C17_Witness ==
    \E m \in Compressible :
        /\ Append(PathOf[m], "encoded_exponent") \in diags
        /\ mod[m].bufs["encoded_exponent"].present
        /\ mod[m].bufs["encoded_exponent"].numel = CodedBytesOf[m]
        /\ mod[m].bufs["encoded_exponent"].data # StaleBytes
        /\ stream = << >> /\ phase = "attach"
        /\ \E x \in Compressible \ {m} : mod[x].smem # NoSmem

\* Some component of parts[:-1] is no attribute of the module the
\* components before it lead to.
C18_PathBroken(parts) ==
    \E i \in 1..(Len(parts) - 1) :
        \E m \in Mods : /\ PathOf[m] = SubSeq(parts, 1, i - 1)
                        /\ Child(m, parts[i]) = NoMod
                        /\ ~HasPlainAttr(mod, m, parts[i])

\* C18: a tensor whose dotted path has an intermediate attribute the
\* module tree lacks: a diagnostic is reported and nothing of the model
\* changes (no buffer, no split positions, no hook, no weight stripped, no
\* shared-memory size), and the loop goes on to the next tensor.
C18_MissingPath ==
    [][(phase = "attach" /\ stream # << >> /\ stream' # stream
        /\ ~IsParam(mod, Head(stream).parts) /\ ~IsBuffer(mod, Head(stream).parts)
        /\ C18_PathBroken(Head(stream).parts)) =>
          /\ diags' = diags \cup {Head(stream).parts}
          /\ mod' = mod
          /\ phase' = "attach"
          /\ stream' = Tail(stream)]_vars

\* C18 witness: the tensor under attn.v, which the model does not have, was
\* reported, and the load reached its end with the records of the layers
\* attached.
C18_Witness ==
    /\ <<"attn", "v", "encoded_exponent">> \in diags
    /\ stream = << >> /\ phase = "attach"
    /\ \A m \in Mods : ~mod[m].bufs["encoded_exponent"].present => mod[m].hooks = 0
    /\ \E m \in Compressible : mod[m].hooks = 1 /\ mod[m].smem # NoSmem

\* C19: attach never raises: whatever goes wrong with a tensor, the loop
\* over the tensors skips it and goes on.
C19_NeverRaises == phase # "failed"

\* The compressed record of module m and its shared-memory size are
\* attached.
C20_Complete(m) ==
    /\ \A b \in BufNames : mod[m].bufs[b].present
    /\ mod[m].smem # NoSmem
    /\ ~(IsLinear(m) \/ IsEmbedding(m)) => mod[m].split.set

\* C20: once the record tensors and the shared-memory size of a module
\* are attached, no step changes them.
C20_RecordFrozen ==
    [][\A m \in Compressible :
          C20_Complete(m) => /\ mod'[m].bufs = mod[m].bufs
                             /\ mod'[m].split = mod[m].split
                             /\ mod'[m].smem = mod[m].smem]_vars

\* Every tensor name of the directory occurs once.
C21_NamesOnce ==
    \A x, y \in shards : x.parts = y.parts => x = y

\* Every module path matches at most one pattern.
C21_OneMatch ==
    \A m \in Mods : \A i, j \in 1..Len(cfg.dict) :
        (FullMatch(cfg.dict[i], PathOf[m]) /\ FullMatch(cfg.dict[j], PathOf[m])) => i = j

\* The load of the tensors of S onto ms in one fixed order of reference.
RECURSIVE C21_AttachAll(_, _, _)
C21_AttachAll(ms, c, S) ==
    IF S = {} THEN Step(ms, "ok")
    ELSE LET x == CHOOSE y \in S : TRUE
             r == AttachOne(ms, c, x)
         IN  IF r.out = "raised" THEN r ELSE C21_AttachAll(r.ms, c, S \ {x})

C21_Reference == C21_AttachAll([m \in Mods |-> FreshModule(m)], cfg, shards)

\* C21: for tensors named once and module paths matching at most one
\* pattern, the model that load_and_replace_tensors leaves behind
\* (buffers, split positions, shared-memory sizes, hooks, weights removed,
\* weight_injection_modules) is the same whatever the order of the tensors:
\* it is the model the order of reference leaves behind.
C21_OrderIndependent ==
    (/\ C21_NamesOnce /\ C21_OneMatch
     /\ \/ phase = "attach" /\ stream = << >>
        \/ phase = "failed") =>
        mod = C21_Reference.ms

\* What does hold of the orders: a load raises in every order or in none,
\* and the loads that end without a raise leave the model of the order of
\* reference.
C21_CompletedLoads ==
    (C21_NamesOnce /\ C21_OneMatch) =>
        /\ phase = "failed" => C21_Reference.out = "raised"
        /\ (phase = "attach" /\ stream = << >>) =>
              /\ C21_Reference.out # "raised"
              /\ mod = C21_Reference.ms

====
